---- MODULE Spec2Model ----
(***************************************************************************)
(* Model of the product-catalog bulk importer (uploader.py), the record    *)
(* store wrapper (dbase.py) and the decoding step of the lookup service    *)
(* (products.py, app.py).                                                  *)
(*                                                                         *)
(* Python values are records [kind, v]: kind is the Python type, v the     *)
(* payload.  A Python dict is a TLA+ function from keys to values, a       *)
(* Python list a sequence.  List positions are 0-based in the source and   *)
(* kept 0-based in start_index, end_index and products_subset; the         *)
(* in-memory list products itself is a 1-based TLA+ sequence.              *)
(***************************************************************************)
EXTENDS Integers, Sequences, FiniteSets, TLC

VARIABLES
    env,                 \* os.environ as seen by _load_config: the value of S3_BUCKET
    pc,                  \* position of the importer process
    exit_code,           \* the process exit code 0 / 1 (-1 while it runs)
    yaml_file,           \* the input file: "missing", "malformed" or "ok"
    yaml_content,        \* what yaml.safe_load parses from the file (a list of dicts)
    file_read,           \* TRUE once open(yaml_path) has been executed
    products,            \* the in-memory list of record dicts (mutated by the loop)
    disk,                \* the set of paths for which os.path.exists is true
    start_index,         \* --start
    count,               \* --count (CountNone when omitted)
    products_subset,     \* the window: references (0-based positions) into products
    pos,                 \* position of the for loop inside products_subset (1-based)
    db_success,
    db_failure,
    image_success,
    image_failure,
    default_image_count,
    image_file_path,     \* local of the loop: result of get_image_path
    is_default,          \* local of the loop: result of get_image_path
    table,               \* the record store: id -> item in tagged-value format
    bucket,              \* the blob store: S3 key -> local path uploaded
    add_calls,           \* the add_item calls of the run, in order: [ref, ok]
    resolve_calls,       \* references of the records get_image_path was called with
    upload_calls,        \* the upload_image_to_s3 calls of the run, in order: [ref, ok]
    clock,               \* datetime.utcnow(), as a tick counter
    product_dict,        \* lookup service: the decoded record (EmptyDict before a lookup)
    run,                 \* the importer process the variables above belong to (1 or 2)
    other,               \* the local state of the importer process that is not scheduled
    last_writer          \* id -> the importer process whose put_item stored the item last

vars == <<env, pc, exit_code, yaml_file, yaml_content, file_read, products, disk, start_index, count,
          products_subset, pos, db_success, db_failure, image_success, image_failure,
          default_image_count, image_file_path, is_default, table, bucket,
          add_calls, resolve_calls, upload_calls, clock, product_dict,
          run, other, last_writer>>

(***************************************************************************)
(* Bounds of the model.                                                    *)
(***************************************************************************)
MaxBatch == 2        \* longest batch in the input file
MaxStart == 2        \* largest --start
MaxCount == 2        \* largest --count
MaxInt == 10         \* largest integer field value
MaxListLen == 2      \* longest list field value

(***************************************************************************)
(* Python values.                                                          *)
(***************************************************************************)
PyStr(s) == [kind |-> "str", v |-> s]
PyInt(n) == [kind |-> "int", v |-> n]
PyFloat(tenths) == [kind |-> "float", v |-> tenths]   \* the float tenths/10
PyBool(b) == [kind |-> "bool", v |-> b]
PyNone == [kind |-> "NoneType", v |-> "None"]
PyDate(iso) == [kind |-> "date", v |-> iso]           \* datetime.date, from a YAML date
PyList(s) == [kind |-> "list", v |-> s]
PyDict(f) == [kind |-> "dict", v |-> f]

EmptyDict == [k \in {} |-> PyNone]

Min(a, b) == IF a < b THEN a ELSE b
Max(a, b) == IF a > b THEN a ELSE b

Digit(d) ==
    CASE d = 0 -> "0" [] d = 1 -> "1" [] d = 2 -> "2" [] d = 3 -> "3" [] d = 4 -> "4"
      [] d = 5 -> "5" [] d = 6 -> "6" [] d = 7 -> "7" [] d = 8 -> "8" [] d = 9 -> "9"

RECURSIVE NatStr(_)
NatStr(n) == IF n < 10 THEN Digit(n) ELSE NatStr(n \div 10) \o Digit(n % 10)

\* str(n) for an int
IntStr(n) == IF n < 0 THEN "-" \o NatStr(-n) ELSE NatStr(n)

\* str(x) for a non-negative float with one decimal digit
FloatStr(tenths) == NatStr(tenths \div 10) \o "." \o Digit(tenths % 10)

\* str(value) of the scalar kinds
str(value) ==
    CASE value.kind = "str" -> value.v
      [] value.kind = "int" -> IntStr(value.v)
      [] value.kind = "float" -> FloatStr(value.v)
      [] value.kind = "bool" -> (IF value.v THEN "True" ELSE "False")
      [] value.kind = "NoneType" -> "None"
      [] value.kind = "date" -> value.v

\* isinstance(value, cls): bool is a subclass of int
isinstance(value, cls) ==
    \/ value.kind = cls
    \/ value.kind = "bool" /\ cls = "int"

(***************************************************************************)
(* dbase.py: add_item's conversion to the tagged-value format.  A tagged   *)
(* value {tag: x} is the one-key function tag :> x.                        *)
(***************************************************************************)
RECURSIVE convert_to_dynamodb_format(_)
convert_to_dynamodb_format(value) ==
    IF isinstance(value, "str") THEN "S" :> value
    ELSE IF isinstance(value, "int") \/ isinstance(value, "float")
        THEN "N" :> PyStr(str(value))
    ELSE IF isinstance(value, "bool") THEN "BOOL" :> value
    ELSE IF isinstance(value, "list")
        THEN "L" :> [n \in DOMAIN value.v |-> convert_to_dynamodb_format(value.v[n])]
    ELSE IF isinstance(value, "dict")
        THEN "M" :> [k \in DOMAIN value.v |-> convert_to_dynamodb_format(value.v[k])]
    ELSE IF value.kind = "NoneType" THEN "NULL" :> PyBool(TRUE)
    ELSE "S" :> PyStr(str(value))

\* dynamodb_item = {k: convert_to_dynamodb_format(v) for k, v in item.items()}
dynamodb_item(item) == [k \in DOMAIN item |-> convert_to_dynamodb_format(item[k])]

(***************************************************************************)
(* products.py / app.py: {k: v.get(list(v.keys())[0]) for k, v in ...}     *)
(***************************************************************************)
FirstKey(v) == CHOOSE k \in DOMAIN v : TRUE     \* a tagged value has one key

decode_item(item) == [k \in DOMAIN item |-> item[k][FirstKey(item[k])]]

(***************************************************************************)
(* Python dict and path helpers.                                           *)
(***************************************************************************)
\* d[k] = x
DictSet(d, k, x) == [kk \in DOMAIN d \cup {k} |-> IF kk = k THEN x ELSE d[kk]]

\* d.get(k, default)
DictGet(d, k, default) == IF k \in DOMAIN d THEN d[k] ELSE default

\* bool(value) is False
Falsy(value) ==
    \/ value.kind = "NoneType"
    \/ value.kind = "str" /\ value.v = ""
    \/ value.kind = "bool" /\ ~value.v

ImagePath == "./data/images"                       \* config['image_path']
DefaultImage == "product_image_coming_soon.png"
Uncategorized == "uncategorized"

\* os.path.join of relative components: a path is the sequence of its
\* components (an empty last component is the trailing separator).  A
\* component that is not a str raises TypeError.
JoinRaises(parts) == \E n \in DOMAIN parts : parts[n].kind # "str"
os_path_join(parts) == [n \in DOMAIN parts |-> parts[n].v]

\* os.path.exists
os_path_exists(path, fs) == path \in fs

DefaultPath == os_path_join(<<PyStr(ImagePath), PyStr(DefaultImage)>>)

\* the components get_image_path joins for a record that has an image field
ImageParts(product) ==
    <<PyStr(ImagePath), DictGet(product, "category", PyStr(Uncategorized)), product["image"]>>

(***************************************************************************)
(* uploader.py: get_image_path.  The result is (path, is_default), or the  *)
(* exception raised (exc # "").                                            *)
(***************************************************************************)
\* no fallback for an image file that is not on disk
get_image_path_no_fallback(product, fs) ==
    IF "image" \notin DOMAIN product
        THEN [exc |-> "", path |-> DefaultPath, is_default |-> TRUE]
    ELSE IF JoinRaises(ImageParts(product))
        THEN [exc |-> "TypeError", path |-> <<>>, is_default |-> FALSE]
    ELSE [exc |-> "", path |-> os_path_join(ImageParts(product)), is_default |-> FALSE]

\* the default path is returned without the used-default flag
get_image_path_flag_lost(product, fs) ==
    IF "image" \notin DOMAIN product
        THEN [exc |-> "", path |-> DefaultPath, is_default |-> FALSE]
    ELSE IF JoinRaises(ImageParts(product))
        THEN [exc |-> "TypeError", path |-> <<>>, is_default |-> FALSE]
    ELSE IF ~os_path_exists(os_path_join(ImageParts(product)), fs)
        THEN [exc |-> "", path |-> DefaultPath, is_default |-> TRUE]
    ELSE [exc |-> "", path |-> os_path_join(ImageParts(product)), is_default |-> FALSE]

get_image_path(product, fs) ==
    IF "image" \notin DOMAIN product
        THEN [exc |-> "", path |-> DefaultPath, is_default |-> TRUE]
    ELSE IF JoinRaises(ImageParts(product))
        THEN [exc |-> "TypeError", path |-> <<>>, is_default |-> FALSE]
    ELSE IF ~os_path_exists(os_path_join(ImageParts(product)), fs)
        THEN [exc |-> "", path |-> DefaultPath, is_default |-> TRUE]
    ELSE [exc |-> "", path |-> os_path_join(ImageParts(product)), is_default |-> FALSE]

(***************************************************************************)
(* uploader.py: upload_image_to_s3.  s3_ok is the outcome of the           *)
(* upload_file call, should it be made.  The result says whether           *)
(* upload_file was called (put), under which key, and the return value.    *)
(***************************************************************************)
s3_key(product) ==
    str(DictGet(product, "category", PyStr(Uncategorized))) \o "/" \o str(product["image"])

upload_image_to_s3(path, product, fs, s3_ok) ==
    IF ~os_path_exists(path, fs)
        THEN [put |-> FALSE, key |-> "", ok |-> FALSE]
    ELSE IF Falsy(DictGet(product, "image", PyNone))
        THEN [put |-> FALSE, key |-> "", ok |-> FALSE]
    ELSE [put |-> TRUE, key |-> s3_key(product), ok |-> s3_ok]

(***************************************************************************)
(* uploader.py: the pagination window of bulk_upload_products.             *)
(***************************************************************************)
CountNone == PyNone

\* end_index = count, not start_index + count
EndIndexCountOnly(start, cnt, len) ==
    Min(IF cnt.kind # "NoneType" THEN cnt.v ELSE len, len)

\* end_index = start_index + count if count is not None else len(products)
\* end_index = min(end_index, len(products))
EndIndex(start, cnt, len) ==
    Min(IF cnt.kind # "NoneType" THEN start + cnt.v ELSE len, len)

\* Python's normalisation of a slice bound for a list of length len
SliceBound(n, len) == IF n < 0 THEN Max(len + n, 0) ELSE Min(n, len)

\* products[start:stop], as the 0-based positions it selects, in order
PySlice(start, stop, len) ==
    LET lo == SliceBound(start, len)
        hi == SliceBound(stop, len)
    IN  [n \in 1..Max(hi - lo, 0) |-> lo + n - 1]

\* products_subset = products[start_index:end_index]
ProductsSubset(start, cnt, len) == PySlice(start, EndIndex(start, cnt, len), len)

(***************************************************************************)
(* dbase.py: add_item.  db_ok is the outcome of _connect and put_item; the *)
(* store keeps one item per id.                                            *)
(***************************************************************************)
\* a conditional put: an item that is already stored is kept
put_item_if_absent(tbl, ditem) ==
    IF ditem["id"]["S"].v \in DOMAIN tbl THEN tbl
    ELSE [k \in DOMAIN tbl \cup {ditem["id"]["S"].v} |->
            IF k = ditem["id"]["S"].v THEN ditem ELSE tbl[k]]

put_item(tbl, ditem) ==
    [k \in DOMAIN tbl \cup {ditem["id"]["S"].v} |->
        IF k = ditem["id"]["S"].v THEN ditem ELSE tbl[k]]

add_item(tbl, item, db_ok) == IF db_ok THEN put_item(tbl, dynamodb_item(item)) ELSE tbl

\* s3_client.upload_file(image_path, bucket_name, s3_key)
upload_file(bkt, key, path) ==
    [k \in DOMAIN bkt \cup {key} |-> IF k = key THEN path ELSE bkt[k]]

\* datetime.utcnow().isoformat()
isoformat(t) == PyStr("T" \o NatStr(t))

(***************************************************************************)
(* The inputs of a run.                                                    *)
(***************************************************************************)
EnvValues == {PyNone, PyStr(""), PyStr("catalog-bucket")}     \* os.getenv('S3_BUCKET')
StartValues == 0..MaxStart
CountValues == {CountNone} \cup {PyInt(n) : n \in 0..MaxCount}

ImageValues == {PyStr("a.jpg"), PyStr(""), PyNone}
CategoryValues == {PyStr("shoes")}

\* the records of a file, before their id: image and category are optional
RecordBodies ==
    UNION {{d \in [D -> ImageValues \cup CategoryValues] :
                /\ "image" \in D => d["image"] \in ImageValues
                /\ "category" \in D => d["category"] \in CategoryValues} :
           D \in SUBSET {"image", "category"}}

IdOf(n) == PyStr("p" \o NatStr(n))

Batches ==
    UNION {{[n \in 1..k |-> DictSet(b[n], "id", IdOf(n))] : b \in [1..k -> RecordBodies]} :
           k \in 0..MaxBatch}

\* the paths a run over batch can ask os.path.exists about
RelevantPaths(batch) ==
    {DefaultPath} \cup
    {os_path_join(ImageParts(batch[n])) :
        n \in {m \in DOMAIN batch : "image" \in DOMAIN batch[m]
                                      /\ ~JoinRaises(ImageParts(batch[m]))}}

(***************************************************************************)
(* The importer run: main() and bulk_upload_products.  The variables of    *)
(* the run are those of the scheduled importer process; a second importer  *)
(* process, when there is one, is kept in other until it is scheduled.     *)
(***************************************************************************)
\* no second importer process
NoProcess ==
    [pc |-> "absent", exit_code |-> -1, yaml_file |-> "missing", yaml_content |-> <<>>,
     file_read |-> FALSE, products |-> <<>>, start_index |-> 0, count |-> CountNone,
     products_subset |-> <<>>, pos |-> 1, db_success |-> 0, db_failure |-> 0,
     image_success |-> 0, image_failure |-> 0, default_image_count |-> 0,
     image_file_path |-> <<>>, is_default |-> FALSE, add_calls |-> <<>>,
     resolve_calls |-> <<>>, upload_calls |-> <<>>]

Init ==
    /\ env \in EnvValues
    /\ yaml_file \in {"missing", "malformed", "ok"}
    /\ yaml_content \in (IF yaml_file = "ok" THEN Batches ELSE {<<>>})
    \* a run that fails in _load_config reads neither the image directory
    \* nor --start and --count: one choice of them stands for all
    /\ disk \in (IF Falsy(env) THEN {{}} ELSE SUBSET RelevantPaths(yaml_content))
    /\ start_index \in (IF Falsy(env) THEN {0} ELSE StartValues)
    /\ count \in (IF Falsy(env) THEN {CountNone} ELSE CountValues)
    /\ pc = "main"
    /\ exit_code = -1
    /\ file_read = FALSE
    /\ products = <<>>
    /\ products_subset = <<>>
    /\ pos = 1
    /\ db_success = 0 /\ db_failure = 0
    /\ image_success = 0 /\ image_failure = 0
    /\ default_image_count = 0
    /\ image_file_path = <<>>
    /\ is_default = FALSE
    /\ table = EmptyDict
    /\ bucket = EmptyDict
    /\ add_calls = <<>> /\ resolve_calls = <<>> /\ upload_calls = <<>>
    /\ clock = 0
    /\ product_dict = EmptyDict
    /\ run = 1
    /\ other = NoProcess
    /\ last_writer = EmptyDict

\* sys.exit(code)
Exit(code) == pc' = "exited" /\ exit_code' = code

\* `if s3_bucket is None`: an empty S3_BUCKET passes the validation
ConfigInvalidNoneOnly(s3_bucket) == s3_bucket.kind = "NoneType"

\* _load_config: `if not s3_bucket: raise ValueError(...)`
ConfigInvalid(s3_bucket) == Falsy(s3_bucket)

\* a missing file is read as an empty document
open_raises_never(status) == FALSE

\* open(yaml_path, 'r') raises FileNotFoundError
open_raises(status) == status = "missing"

\* yaml.safe_load(file) raises yaml.YAMLError
safe_load_raises(status) == status = "malformed"

\* main: DataUploader(...) -> _load_config; ValueError -> sys.exit(1)
LoadConfig ==
    /\ pc = "main"
    /\ IF ConfigInvalid(env) THEN Exit(1) ELSE pc' = "bulk" /\ UNCHANGED exit_code
    /\ UNCHANGED <<env, yaml_file, yaml_content, file_read, products, disk, start_index,
                   count, products_subset, pos, db_success, db_failure, image_success,
                   image_failure, default_image_count, image_file_path, is_default,
                   table, bucket, add_calls, resolve_calls, upload_calls, clock,
                   product_dict>>
    /\ UNCHANGED <<run, other, last_writer>>

\* bulk_upload_products up to the loop: open, parse, select the window
OpenAndSelect ==
    /\ pc = "bulk"
    /\ file_read' = ~open_raises(yaml_file)
    /\ IF open_raises(yaml_file) \/ safe_load_raises(yaml_file)
          THEN Exit(1) /\ UNCHANGED <<products, products_subset>>
          ELSE /\ products' = yaml_content
               /\ IF yaml_content = <<>>
                     THEN pc' = "returned" /\ UNCHANGED products_subset
                     ELSE /\ pc' = "loop"
                          /\ products_subset' =
                                ProductsSubset(start_index, count, Len(yaml_content))
               /\ UNCHANGED exit_code
    /\ UNCHANGED <<env, yaml_file, yaml_content, disk, start_index, count, pos,
                   db_success, db_failure, image_success, image_failure,
                   default_image_count, image_file_path, is_default, table, bucket,
                   add_calls, resolve_calls, upload_calls, clock, product_dict>>
    /\ UNCHANGED <<run, other, last_writer>>

\* the image step is taken whatever add_item returned
ImageStepTakenAlways(db_ok) == TRUE

\* `if self.db.add_item(table_name, product):` guards the image step
ImageStepTaken(db_ok) == db_ok

\* loop body, first half: stamp created_at and write the record
StampAndAdd ==
    /\ pc = "loop"
    /\ pos <= Len(products_subset)
    /\ LET ref == products_subset[pos]
           product == DictSet(products[ref + 1], "created_at", isoformat(clock))
       IN  /\ products' = [products EXCEPT ![ref + 1] = product]
           /\ clock' = clock + 1
           /\ \E db_ok \in BOOLEAN :
                /\ table' = add_item(table, product, db_ok)
                /\ add_calls' = Append(add_calls, [ref |-> ref, ok |-> db_ok])
                /\ last_writer' =
                     IF db_ok THEN DictSet(last_writer, product["id"].v, run)
                     ELSE last_writer
                /\ db_success' = IF db_ok THEN db_success + 1 ELSE db_success
                /\ db_failure' = IF db_ok THEN db_failure ELSE db_failure + 1
                /\ pc' = IF ImageStepTaken(db_ok) THEN "resolve" ELSE "loop"
                /\ pos' = IF ImageStepTaken(db_ok) THEN pos ELSE pos + 1
    /\ UNCHANGED <<env, exit_code, yaml_file, yaml_content, file_read, disk, start_index,
                   count, products_subset, image_success, image_failure,
                   default_image_count, image_file_path, is_default, bucket,
                   resolve_calls, upload_calls, product_dict>>
    /\ UNCHANGED <<run, other>>

\* the image field is set to the path of the default image, not to its name
use_default_image_path(product) ==
    DictSet(product, "image", PyStr(ImagePath \o "/" \o DefaultImage))

\* product['image'] = 'product_image_coming_soon.png'
use_default_image(product) == DictSet(product, "image", PyStr(DefaultImage))

\* loop body, second part: get_image_path and the default-image fallback
ResolveImage ==
    /\ pc = "resolve"
    /\ LET ref == products_subset[pos]
           r == get_image_path(products[ref + 1], disk)
       IN  /\ resolve_calls' = Append(resolve_calls, ref)
           /\ IF r.exc # ""
                 THEN /\ Exit(1)      \* except Exception: sys.exit(1)
                      /\ UNCHANGED <<image_file_path, is_default, default_image_count,
                                     products>>
                 ELSE /\ pc' = "upload"
                      /\ image_file_path' = r.path
                      /\ is_default' = r.is_default
                      /\ default_image_count' =
                            IF r.is_default THEN default_image_count + 1
                            ELSE default_image_count
                      /\ products' =
                            IF r.is_default
                            THEN [products EXCEPT ![ref + 1] = use_default_image(@)]
                            ELSE products
                      /\ UNCHANGED exit_code
    /\ UNCHANGED <<env, yaml_file, yaml_content, file_read, disk, start_index, count,
                   products_subset, pos, db_success, db_failure, image_success,
                   image_failure, table, bucket, add_calls, upload_calls, clock,
                   product_dict>>
    /\ UNCHANGED <<run, other, last_writer>>

\* loop body, last part: upload_image_to_s3 and the image counters
UploadImage ==
    /\ pc = "upload"
    /\ LET ref == products_subset[pos]
       IN  \E s3_ok \in BOOLEAN :
                LET u == upload_image_to_s3(image_file_path, products[ref + 1], disk, s3_ok)
                IN  /\ upload_calls' = Append(upload_calls, [ref |-> ref, ok |-> u.ok])
                    /\ bucket' = IF u.put /\ u.ok
                                  THEN upload_file(bucket, u.key, image_file_path)
                                  ELSE bucket
                    /\ image_success' = IF u.ok THEN image_success + 1 ELSE image_success
                    /\ image_failure' = IF u.ok THEN image_failure ELSE image_failure + 1
    /\ pos' = pos + 1
    /\ pc' = "loop"
    /\ UNCHANGED <<env, exit_code, yaml_file, yaml_content, file_read, products, disk,
                   start_index, count, products_subset, db_success, db_failure,
                   default_image_count, image_file_path, is_default, table, add_calls,
                   resolve_calls, clock, product_dict>>
    /\ UNCHANGED <<run, other, last_writer>>

\* after the loop: print the summary
Summary ==
    /\ pc = "loop"
    /\ pos > Len(products_subset)
    /\ pc' = "summary"
    /\ UNCHANGED <<env, exit_code, yaml_file, yaml_content, file_read, products, disk,
                   start_index, count, products_subset, pos, db_success, db_failure,
                   image_success, image_failure, default_image_count, image_file_path,
                   is_default, table, bucket, add_calls, resolve_calls, upload_calls,
                   clock, product_dict>>
    /\ UNCHANGED <<run, other, last_writer>>

\* bulk_upload_products returns to main, which ends normally
Return ==
    /\ pc \in {"summary", "returned"}
    /\ Exit(0)
    /\ UNCHANGED <<env, yaml_file, yaml_content, file_read, products, disk, start_index,
                   count, products_subset, pos, db_success, db_failure, image_success,
                   image_failure, default_image_count, image_file_path, is_default,
                   table, bucket, add_calls, resolve_calls, upload_calls, clock,
                   product_dict>>
    /\ UNCHANGED <<run, other, last_writer>>

Next ==
    \/ LoadConfig
    \/ OpenAndSelect
    \/ StampAndAdd
    \/ ResolveImage
    \/ UploadImage
    \/ Summary
    \/ Return

Spec == Init /\ [][Next]_vars

(***************************************************************************)
(* The record store seen from both sides: add_item writes a record in the  *)
(* tagged-value format (dbase.py), the lookup service reads it back with   *)
(* get_item and decodes it (products.py get_product, app.py index).        *)
(***************************************************************************)
StrValues == {PyStr(""), PyStr("a"), PyStr("12")}
IntValues == {PyInt(n) : n \in (-1)..MaxInt}
FloatValues == {PyFloat(5), PyFloat(199)}                 \* 0.5 and 19.9
BoolValues == {PyBool(TRUE), PyBool(FALSE)}
Scalars == StrValues \cup IntValues \cup FloatValues \cup BoolValues

\* values that are not str, number or bool: null, a YAML date
OtherValues == {PyNone, PyDate("2024-01-31")}

ListsOf(S) == {PyList(q) : q \in UNION {[1..k -> S] : k \in 0..MaxListLen}}
DictsOf(S) == {PyDict(EmptyDict)} \cup {PyDict("k" :> x) : x \in S}

Flat == Scalars \cup OtherValues
Nested == ListsOf(Flat) \cup DictsOf(Flat)
ConvValues ==
    Flat \cup Nested \cup {PyList(<<x>>) : x \in Nested} \cup {PyDict("k" :> x) : x \in Nested}

\* the records written in this specification: an id and one field
ConvItems == {("id" :> IdOf(1)) @@ ("x" :> x) : x \in ConvValues}

InitConv ==
    /\ products \in {<<item>> : item \in ConvItems}
    /\ pc = "service"
    /\ env = PyStr("catalog-bucket")
    /\ yaml_file = "ok"
    /\ yaml_content = products
    /\ disk = {}
    /\ start_index = 0
    /\ count = CountNone
    /\ exit_code = -1
    /\ file_read = TRUE
    /\ products_subset = <<0>>
    /\ pos = 1
    /\ db_success = 0 /\ db_failure = 0
    /\ image_success = 0 /\ image_failure = 0
    /\ default_image_count = 0
    /\ image_file_path = <<>>
    /\ is_default = FALSE
    /\ table = EmptyDict
    /\ bucket = EmptyDict
    /\ add_calls = <<>> /\ resolve_calls = <<>> /\ upload_calls = <<>>
    /\ clock = 0
    /\ product_dict = EmptyDict
    /\ run = 1
    /\ other = NoProcess
    /\ last_writer = EmptyDict

\* dbase.py get_item: the stored item, or None (EmptyDict) when there is none
get_item(tbl, item_id) == IF item_id \in DOMAIN tbl THEN tbl[item_id] ELSE EmptyDict

\* Dbase.add_item(table_name, item) on the record held in memory
AddItem ==
    /\ pc = "service"
    /\ \E db_ok \in BOOLEAN : table' = add_item(table, products[1], db_ok)
    /\ UNCHANGED <<env, pc, exit_code, yaml_file, yaml_content, file_read, products, disk,
                   start_index, count, products_subset, pos, db_success, db_failure,
                   image_success, image_failure, default_image_count, image_file_path,
                   is_default, bucket, add_calls, resolve_calls, upload_calls, clock,
                   product_dict>>
    /\ UNCHANGED <<run, other, last_writer>>

\* get_product(product_id) / index: get_item, then decode if the item was found
GetProduct ==
    /\ pc = "service"
    /\ \E product_id \in {"p1", "p2"} :
        LET product == get_item(table, product_id)
        IN  product_dict' = IF product # EmptyDict THEN decode_item(product) ELSE EmptyDict
    /\ UNCHANGED <<env, pc, exit_code, yaml_file, yaml_content, file_read, products, disk,
                   start_index, count, products_subset, pos, db_success, db_failure,
                   image_success, image_failure, default_image_count, image_file_path,
                   is_default, table, bucket, add_calls, resolve_calls, upload_calls,
                   clock>>
    /\ UNCHANGED <<run, other, last_writer>>

NextConv == AddItem \/ GetProduct

SpecConv == InitConv /\ [][NextConv]_vars

(***************************************************************************)
(* C1.  Round trip of the tagged-value encoding: for a record whose fields *)
(* are all strings, numbers or booleans, the record the lookup service     *)
(* decodes from the stored item has, for every field, exactly the original *)
(* value.                                                                  *)
(***************************************************************************)
IsScalar(value) == value.kind \in {"str", "int", "float", "bool"}

PyEq(a, b) == a.kind = b.kind /\ a.v = b.v

RoundTripExact ==
    (/\ product_dict # EmptyDict
     /\ \A k \in DOMAIN products[1] : IsScalar(products[1][k]))
    => /\ DOMAIN product_dict = DOMAIN products[1]
       /\ \A k \in DOMAIN products[1] : PyEq(product_dict[k], products[1][k])

(***************************************************************************)
(* C10.  The conversion maps every field value by its kind: str to         *)
(* {S: value}, int and float to {N: str(value)}, bool to {BOOL: value},    *)
(* list and dict to the recursively converted {L: ...} / {M: ...}, None to *)
(* {NULL: True}, anything else to {S: str(value)}; a bool is never encoded *)
(* with the N tag.                                                         *)
(***************************************************************************)
RECURSIVE TaggedByKind(_)
TaggedByKind(value) ==
    CASE value.kind = "str" -> "S" :> value
      [] value.kind \in {"int", "float"} -> "N" :> PyStr(str(value))
      [] value.kind = "bool" -> "BOOL" :> value
      [] value.kind = "list" -> "L" :> [n \in DOMAIN value.v |-> TaggedByKind(value.v[n])]
      [] value.kind = "dict" -> "M" :> [k \in DOMAIN value.v |-> TaggedByKind(value.v[k])]
      [] value.kind = "NoneType" -> "NULL" :> PyBool(TRUE)
      [] OTHER -> "S" :> PyStr(str(value))

ConversionByKind ==
    \A id \in DOMAIN table :
        /\ DOMAIN table[id] = DOMAIN products[1]
        /\ \A k \in DOMAIN products[1] : table[id][k] = TaggedByKind(products[1][k])

(***************************************************************************)
(* Shared vocabulary of the claims about a run.                            *)
(***************************************************************************)
\* the window has been selected (bulk_upload_products is at or past its loop)
WindowSelected == pc \in {"loop", "resolve", "upload", "summary"}

\* references of the records whose add_item call returned False / True
FailedRefs == {add_calls[n].ref : n \in {m \in DOMAIN add_calls : ~add_calls[m].ok}}
WrittenRefs == {add_calls[n].ref : n \in {m \in DOMAIN add_calls : add_calls[m].ok}}
ResolvedRefs == {resolve_calls[n] : n \in DOMAIN resolve_calls}
UploadRefs == {upload_calls[n].ref : n \in DOMAIN upload_calls}

ImageAttempts == image_success + image_failure

(***************************************************************************)
(* C2.  A record whose add_item call returned False gets no image step in  *)
(* that run: the step that counts the failure moves the loop to the next   *)
(* record and leaves the image counters, the default-image counter, the    *)
(* blob store and the call histories of get_image_path and                 *)
(* upload_image_to_s3 unchanged, and no such call is ever made for it.     *)
(***************************************************************************)
WriteFailureSkipsImage ==
    /\ [](FailedRefs \cap (ResolvedRefs \cup UploadRefs) = {})
    /\ [][db_failure' # db_failure =>
            /\ pc' = "loop" /\ pos' = pos + 1
            /\ UNCHANGED <<image_success, image_failure, default_image_count, bucket,
                           resolve_calls, upload_calls>>]_vars

WriteFailureSkipsImageWitness ==
    /\ pc = "summary"
    /\ FailedRefs # {}
    /\ UploadRefs # {}

(***************************************************************************)
(* C3.  As stated: in a finished run with exactly one failed record write, *)
(* the summary shows one write failure and one fewer image-upload attempt  *)
(* than successful writes.                                                 *)
(***************************************************************************)
OneFailureOneFewerThanWrites ==
    (pc = "summary" /\ Cardinality(FailedRefs) = 1)
    => /\ db_failure = 1
       /\ ImageAttempts = db_success - 1

(***************************************************************************)
(* C3, amended.  In a finished run with exactly one failed record write,   *)
(* the summary shows one write failure, and the number of image-upload     *)
(* attempts equals the number of successful writes, which is one fewer     *)
(* than the number of records in the window.                               *)
(***************************************************************************)
OneFailureOneFewerThanWindow ==
    (pc = "summary" /\ Cardinality(FailedRefs) = 1)
    => /\ db_failure = 1
       /\ ImageAttempts = db_success
       /\ ImageAttempts = Len(products_subset) - 1

OneFailureWitness ==
    /\ pc = "summary"
    /\ Cardinality(FailedRefs) = 1
    /\ Cardinality(WrittenRefs) = 1
    /\ ImageAttempts = 1

(***************************************************************************)
(* C4.  In a finished run over a window of N records whose writes all      *)
(* succeeded, the summary shows N record writes, N image-upload attempts,  *)
(* and a default-image count equal to the number of window records whose   *)
(* image field is absent or whose image file is not on disk.               *)
(***************************************************************************)
\* the record as loaded has no image field, or its image file is not on disk
NeedsDefault(rec) ==
    \/ "image" \notin DOMAIN rec
    \/ os_path_join(ImageParts(rec)) \notin disk

WindowRefs == {products_subset[n] : n \in DOMAIN products_subset}

AllWritesSucceedSummary ==
    (pc = "summary" /\ FailedRefs = {})
    => /\ db_success = Len(products_subset)
       /\ ImageAttempts = Len(products_subset)
       /\ default_image_count =
            Cardinality({r \in WindowRefs : NeedsDefault(yaml_content[r + 1])})

\* two records written, only the second lacks an image field
AllWritesSucceedWitness ==
    /\ pc = "summary"
    /\ FailedRefs = {}
    /\ products_subset = <<0, 1>>
    /\ "image" \in DOMAIN yaml_content[1]
    /\ "image" \notin DOMAIN yaml_content[2]
    /\ default_image_count = 1
    /\ ImageAttempts = 2

(***************************************************************************)
(* C5.  Window selection: for a non-empty batch, start >= 0 and count      *)
(* omitted or >= 0, the window is the batch positions                      *)
(* start .. min(start + count, len) - 1 in order (count omitted: up to     *)
(* len - 1); start 0 with count omitted selects the whole batch, and a     *)
(* start >= len selects nothing, without an error.                         *)
(***************************************************************************)
WindowEnd ==
    IF count = CountNone THEN Len(products)
    ELSE IF start_index + count.v < Len(products) THEN start_index + count.v
    ELSE Len(products)

WindowIsSlice ==
    (/\ pc \notin {"main", "bulk"}
     /\ yaml_file = "ok" /\ yaml_content # <<>>
     /\ ~Falsy(env)
     /\ start_index >= 0
     /\ count = CountNone \/ count.v >= 0)
    => /\ pc = "exited" => (exit_code = 0 \/ resolve_calls # <<>>)
       /\ Len(products_subset) =
            (IF WindowEnd > start_index THEN WindowEnd - start_index ELSE 0)
       /\ \A n \in DOMAIN products_subset : products_subset[n] = start_index + n - 1
       /\ (start_index = 0 /\ count = CountNone)
            => Len(products_subset) = Len(products)
       /\ start_index >= Len(products) => products_subset = <<>>

\* a window cut at both ends, and an empty one from a start past the end
WindowIsSliceWitness ==
    /\ WindowSelected
    /\ Len(products) = 2
    /\ start_index = 1
    /\ count = PyInt(2)
    /\ products_subset = <<1>>

(***************************************************************************)
(* C6.  get_image_path returns (default path, True) for a record without   *)
(* an image field and for a record whose path base/category/image is not   *)
(* on disk, (that path, False) for a record whose path is on disk, and     *)
(* nothing else.                                                           *)
(***************************************************************************)
\* the record get_image_path was last called with, as loaded
ResolvedRecord == yaml_content[products_subset[pos] + 1]

ImagePathResult ==
    pc = "upload" =>
        /\ "image" \notin DOMAIN ResolvedRecord
             => image_file_path = DefaultPath /\ is_default
        /\ "image" \in DOMAIN ResolvedRecord
             => LET constructed ==
                        <<ImagePath,
                          IF "category" \in DOMAIN ResolvedRecord
                          THEN ResolvedRecord["category"].v ELSE Uncategorized,
                          ResolvedRecord["image"].v>>
                IN  IF constructed \in disk
                    THEN image_file_path = constructed /\ ~is_default
                    ELSE image_file_path = DefaultPath /\ is_default

ImagePathResultWitness ==
    /\ pc = "upload"
    /\ "image" \in DOMAIN ResolvedRecord
    /\ "category" \notin DOMAIN ResolvedRecord
    /\ ~is_default
    /\ image_file_path # DefaultPath

(***************************************************************************)
(* C7.  If the input file does not exist, the process ends with exit code  *)
(* 1 and no record is processed: no add_item call, no upload call, nothing *)
(* written to the record store or the blob store.                          *)
(***************************************************************************)
MissingFileExitsOne ==
    yaml_file = "missing"
    => /\ pc \in {"main", "bulk", "exited"}
       /\ pc = "exited" => exit_code = 1
       /\ products = <<>>
       /\ add_calls = <<>> /\ resolve_calls = <<>> /\ upload_calls = <<>>
       /\ table = EmptyDict /\ bucket = EmptyDict

MissingFileWitness ==
    /\ yaml_file = "missing"
    /\ ~Falsy(env)
    /\ pc = "exited"
    /\ exit_code = 1
    /\ ~file_read

(***************************************************************************)
(* C8.  With a valid configuration and an input file that exists and       *)
(* parses as a list of mappings, the importer ends with exit code 0        *)
(* whatever happens to the single records.                                 *)
(***************************************************************************)
ValidInputExitsZero ==
    (pc = "exited" /\ ~Falsy(env) /\ yaml_file = "ok") => exit_code = 0

(***************************************************************************)
(* C9.  If S3_BUCKET is missing, the importer fails at startup and exits   *)
(* with a nonzero code before any record is processed: the input file is   *)
(* not read, and no add_item or upload call is made.                       *)
(***************************************************************************)
MissingBucketFailsAtStartup ==
    Falsy(env)
    => /\ pc \in {"main", "exited"}
       /\ pc = "exited" => exit_code # 0
       /\ ~file_read
       /\ products = <<>>
       /\ add_calls = <<>> /\ resolve_calls = <<>> /\ upload_calls = <<>>
       /\ table = EmptyDict /\ bucket = EmptyDict

MissingBucketWitness ==
    /\ env = PyStr("")
    /\ yaml_file = "ok"
    /\ yaml_content # <<>>
    /\ pc = "exited"
    /\ exit_code = 1

(***************************************************************************)
(* C11.  No atomicity across the dual write.  In every state of a run, a   *)
(* blob has been uploaded for a record only if the record-store write of   *)
(* that record succeeded before in the same run; and a record that was     *)
(* written stays in the record store whatever becomes of its image (the    *)
(* upload fails, or the run stops): nothing is rolled back.                *)
(***************************************************************************)
\* the id of the record a reference of the window points to
RecordId(ref) == yaml_content[ref + 1]["id"].v

UploadedRefs == {upload_calls[n].ref : n \in {m \in DOMAIN upload_calls : upload_calls[m].ok}}

DualWriteNotAtomic ==
    /\ UploadedRefs \subseteq WrittenRefs
    /\ DOMAIN bucket # {} => UploadedRefs # {}
    /\ \A r \in WrittenRefs : RecordId(r) \in DOMAIN table

\* a finished run that left a record in the store without its image
DualWriteNotAtomicWitness ==
    /\ pc = "exited"
    /\ \E r \in WrittenRefs :
        /\ r \notin UploadedRefs
        /\ RecordId(r) \in DOMAIN table
    /\ UploadedRefs # {}

(***************************************************************************)
(* C12.  As stated: stamping created_at is the only mutation of an         *)
(* in-memory record; every other field of every record, the image field    *)
(* included, keeps the value it had when the batch was loaded.             *)
(***************************************************************************)
\* field k of the n-th in-memory record is as it was loaded
FieldAsLoaded(n, k) ==
    /\ k \in DOMAIN yaml_content[n]
    /\ k \in DOMAIN products[n]
    /\ products[n][k] = yaml_content[n][k]

OnlyCreatedAtMutated ==
    \A n \in DOMAIN products :
        /\ DOMAIN yaml_content[n] \subseteq DOMAIN products[n]
        /\ \A k \in DOMAIN products[n] \ {"created_at"} : FieldAsLoaded(n, k)

(***************************************************************************)
(* C12, amended.  The importer mutates an in-memory record in two ways     *)
(* only: it stamps created_at, and, when the default-image fallback was    *)
(* used for the record, it sets the image field to the default filename.   *)
(* Every other field keeps the value it had when the batch was loaded, and *)
(* the image field does too unless the fallback was used.                  *)
(***************************************************************************)
\* get_image_path fell back to the default image for the n-th record
FallbackUsed(n) ==
    /\ (n - 1) \in ResolvedRefs
    /\ pc = "exited" /\ exit_code = 1 => (n - 1) # resolve_calls[Len(resolve_calls)]
    /\ NeedsDefault(yaml_content[n])

CreatedAtAndDefaultImageMutated ==
    \A n \in DOMAIN products :
        /\ DOMAIN yaml_content[n] \subseteq DOMAIN products[n]
        /\ \A k \in DOMAIN products[n] \ {"created_at", "image"} : FieldAsLoaded(n, k)
        /\ "created_at" \in DOMAIN products[n]
             => \E m \in DOMAIN add_calls : add_calls[m].ref = n - 1
        /\ IF FallbackUsed(n)
             THEN products[n]["image"] = PyStr(DefaultImage)
             ELSE "image" \in DOMAIN products[n] => FieldAsLoaded(n, "image")

\* a processed record whose image field was replaced, and one that kept it
CreatedAtAndDefaultImageWitness ==
    /\ pc = "summary"
    /\ Len(products) = 2
    /\ "image" \in DOMAIN yaml_content[1]
    /\ products[1]["image"] = PyStr(DefaultImage)
    /\ yaml_content[1]["image"] # PyStr(DefaultImage)
    /\ FieldAsLoaded(2, "image")
    /\ "created_at" \in DOMAIN products[2]

(***************************************************************************)
(* C13.  When the default-image fallback is used for a record, the item    *)
(* persisted in the record store for that record carries the default       *)
(* filename as its image field, so that the key category/image the lookup  *)
(* service computes from the persisted item is the key under which the     *)
(* image is uploaded.                                                      *)
(***************************************************************************)
\* the record the loop is at, in memory, and what the store holds for it
CurrentProduct == products[products_subset[pos] + 1]
PersistedProduct == decode_item(table[RecordId(products_subset[pos])])

\* image_key = f"{product_dict['category']}/{product_dict['image']}"
image_key(d) == str(d["category"]) \o "/" \o str(d["image"])

DefaultImagePersisted ==
    (pc = "upload" /\ is_default)
    => /\ "image" \in DOMAIN PersistedProduct
       /\ PersistedProduct["image"] = PyStr(DefaultImage)
       /\ "category" \in DOMAIN PersistedProduct
            => image_key(PersistedProduct) = s3_key(CurrentProduct)

(***************************************************************************)
(* C14.  A store failure on one record never stops the run and is never    *)
(* retried: whatever the record store and the blob store answer, the run   *)
(* calls add_item exactly once per record of the window, in window order,  *)
(* calls the upload at most once per record, and reaches the summary after *)
(* the last record of the window.                                          *)
(***************************************************************************)
OneWritePerRecordToSummary ==
    /\ Len(add_calls) <= Len(products_subset)
    /\ \A n \in DOMAIN add_calls : add_calls[n].ref = products_subset[n]
    /\ \A m, n \in DOMAIN upload_calls :
            upload_calls[m].ref = upload_calls[n].ref => m = n
    /\ (pc = "exited" /\ products # <<>>)
        => /\ Len(add_calls) = Len(products_subset)
           /\ exit_code = 0

(***************************************************************************)
(* C16.  Counter invariant of bulk_upload_products, between two loop       *)
(* iterations and at the summary: write successes + write failures is the  *)
(* number of records processed so far (the window length at the summary),  *)
(* image successes + image failures equals the write successes, and the    *)
(* default-image count does not exceed the write successes.                *)
(***************************************************************************)
CounterInvariant ==
    pc \in {"loop", "summary"}
    => /\ db_success + db_failure = pos - 1
       /\ pc = "summary" => db_success + db_failure = Len(products_subset)
       /\ ImageAttempts = db_success
       /\ default_image_count <= db_success
       /\ db_success = Cardinality(WrittenRefs)
       /\ db_failure = Cardinality(FailedRefs)

CounterInvariantWitness ==
    /\ pc = "summary"
    /\ db_success = 1 /\ db_failure = 1
    /\ image_failure = 1
    /\ default_image_count = 1

(***************************************************************************)
(* Two importer processes against the same table and bucket.  Each runs    *)
(* main() on its own input file; the record store, the blob store, the     *)
(* image directory and the wall clock are shared.  The processes are       *)
(* interleaved between their steps by Switch.                              *)
(***************************************************************************)
\* the local state of the scheduled process
LocalState ==
    [pc |-> pc, exit_code |-> exit_code, yaml_file |-> yaml_file,
     yaml_content |-> yaml_content, file_read |-> file_read, products |-> products,
     start_index |-> start_index, count |-> count, products_subset |-> products_subset,
     pos |-> pos, db_success |-> db_success, db_failure |-> db_failure,
     image_success |-> image_success, image_failure |-> image_failure,
     default_image_count |-> default_image_count, image_file_path |-> image_file_path,
     is_default |-> is_default, add_calls |-> add_calls, resolve_calls |-> resolve_calls,
     upload_calls |-> upload_calls]

\* the local state of process r
Local(r) == IF r = run THEN LocalState ELSE other

\* the operating system schedules the other importer process
Switch ==
    /\ other.pc \notin {"absent", "exited"}
    /\ run' = 3 - run
    /\ other' = LocalState
    /\ pc' = other.pc
    /\ exit_code' = other.exit_code
    /\ yaml_file' = other.yaml_file
    /\ yaml_content' = other.yaml_content
    /\ file_read' = other.file_read
    /\ products' = other.products
    /\ start_index' = other.start_index
    /\ count' = other.count
    /\ products_subset' = other.products_subset
    /\ pos' = other.pos
    /\ db_success' = other.db_success
    /\ db_failure' = other.db_failure
    /\ image_success' = other.image_success
    /\ image_failure' = other.image_failure
    /\ default_image_count' = other.default_image_count
    /\ image_file_path' = other.image_file_path
    /\ is_default' = other.is_default
    /\ add_calls' = other.add_calls
    /\ resolve_calls' = other.resolve_calls
    /\ upload_calls' = other.upload_calls
    /\ UNCHANGED <<env, disk, table, bucket, clock, product_dict, last_writer>>

\* the input files of the two processes: one or two records with an image,
\* the n-th record of either file having the id IdOf(n); the records of
\* the second process also have a category
RaceBatches(fields) ==
    {b \in Batches :
        /\ Len(b) \in {1, 2}
        /\ \A n \in DOMAIN b : DOMAIN b[n] = fields /\ b[n]["image"] = PyStr("a.jpg")}

InitRace ==
    /\ env = PyStr("catalog-bucket")
    /\ yaml_file = "ok"
    /\ yaml_content \in RaceBatches({"id", "image"})
    /\ \E b \in RaceBatches({"id", "image", "category"}) :
        /\ other = [NoProcess EXCEPT !.pc = "main", !.yaml_file = "ok", !.yaml_content = b]
        /\ disk \in SUBSET (RelevantPaths(yaml_content) \cup RelevantPaths(b))
    /\ start_index = 0
    /\ count = CountNone
    /\ pc = "main"
    /\ exit_code = -1
    /\ file_read = FALSE
    /\ products = <<>>
    /\ products_subset = <<>>
    /\ pos = 1
    /\ db_success = 0 /\ db_failure = 0
    /\ image_success = 0 /\ image_failure = 0
    /\ default_image_count = 0
    /\ image_file_path = <<>>
    /\ is_default = FALSE
    /\ table = EmptyDict
    /\ bucket = EmptyDict
    /\ add_calls = <<>> /\ resolve_calls = <<>> /\ upload_calls = <<>>
    /\ clock = 0
    /\ product_dict = EmptyDict
    /\ run = 1
    /\ last_writer = EmptyDict

NextRace ==
    \/ LoadConfig
    \/ OpenAndSelect
    \/ StampAndAdd
    \/ ResolveImage
    \/ UploadImage
    \/ Summary
    \/ Return
    \/ Switch

SpecRace == InitRace /\ [][NextRace]_vars

(***************************************************************************)
(* C15.  Two concurrent importer runs with overlapping record ids are      *)
(* neither ordered nor detected: the item the record store holds for an id *)
(* is the one written by whichever run wrote it last, every write the      *)
(* store accepted is counted as a success by the run that made it, also    *)
(* when it overwrote or was overwritten by the other run's item, and no    *)
(* run counts anything else.                                               *)
(***************************************************************************)
Runs == {1, 2}

\* position in the file of process r of the record with this id
RecordAt(r, id) ==
    CHOOSE n \in DOMAIN Local(r).yaml_content : Local(r).yaml_content[n]["id"].v = id

\* the item process r sent to the store for this id: its record as loaded,
\* with the created_at stamp it got
ItemWrittenBy(r, id) ==
    dynamodb_item(DictSet(Local(r).yaml_content[RecordAt(r, id)], "created_at",
                          Local(r).products[RecordAt(r, id)]["created_at"]))

\* ids for which add_item of process r returned True / False
IdsWrittenBy(r) ==
    {Local(r).yaml_content[c.ref + 1]["id"].v :
        c \in {Local(r).add_calls[n] :
                 n \in {m \in DOMAIN Local(r).add_calls : Local(r).add_calls[m].ok}}}
IdsFailedBy(r) ==
    {Local(r).yaml_content[c.ref + 1]["id"].v :
        c \in {Local(r).add_calls[n] :
                 n \in {m \in DOMAIN Local(r).add_calls : ~Local(r).add_calls[m].ok}}}

LastWriterWins ==
    /\ DOMAIN table = IdsWrittenBy(1) \cup IdsWrittenBy(2)
    /\ \A id \in DOMAIN table :
        /\ id \in IdsWrittenBy(last_writer[id])
        /\ table[id] = ItemWrittenBy(last_writer[id], id)
    /\ \A r \in Runs :
        /\ Local(r).db_success = Cardinality(IdsWrittenBy(r))
        /\ Local(r).db_failure = Cardinality(IdsFailedBy(r))

\* both runs are at their summary, both wrote p1 and p2 and count two
\* successes; p1 was written last by run 1, p2 by run 2
LastWriterWinsWitness ==
    /\ pc = "exited" /\ other.pc = "exited"
    /\ exit_code = 0 /\ other.exit_code = 0
    /\ \A r \in Runs : IdsWrittenBy(r) = {"p1", "p2"} /\ Local(r).db_success = 2
                          /\ Local(r).db_failure = 0
    /\ last_writer["p1"] = 1
    /\ last_writer["p2"] = 2
    /\ table["p1"] # ItemWrittenBy(2, "p1")
    /\ table["p2"] # ItemWrittenBy(1, "p2")

====
